---------------------------- MODULE Spec2Model ----------------------------
(***************************************************************************)
(* Tic-Tac-Toe (src/src/game.rs, src/src/main.rs): the Game struct, the    *)
(* play_game loop with its blocking reads, and the pure helpers.           *)
(*                                                                         *)
(* Text is a sequence of one-character strings, so that trim, to_lowercase *)
(* and parse::<u32> are computed character by character.                   *)
(***************************************************************************)
EXTENDS Integers, Sequences, FiniteSets

VARIABLES
    board,        \* Game.board: [0..2 -> [0..2 -> String]]
    current_turn, \* Game.current_turn: "Player" or "Bot"
    finished,     \* play_game's local `finished`
    pc,           \* position of the single thread inside play_game
    output,       \* the message the last step printed ("" when it printed none;
                  \* the board's rendering and the prompts are left out)
    valid_token,  \* play_turn's local: the token of the last mark placed
    first_match,  \* history: TRUE until the first reset of the session
    ret           \* the last call of a pure function: [fn, arg, val]

vars == <<board, current_turn, finished, pc, output, valid_token, first_match, ret>>

(***************************************************************************)
(* Bounds of the model.                                                    *)
(***************************************************************************)
\* Player inputs are the decimal texts of 0..MaxNum (with decorations) and junk.
MaxNum == 11
\* rand::random::<u32>() draws from 0..MaxRand.
MaxRand == 9

(***************************************************************************)
(* Text: characters, trim, to_lowercase, to_string, parse::<u32>.          *)
(***************************************************************************)
DigitChars == <<"0", "1", "2", "3", "4", "5", "6", "7", "8", "9">>

IsDigit(c) == \E i \in 1..10 : DigitChars[i] = c

DigitVal(c) == (CHOOSE i \in 1..10 : DigitChars[i] = c) - 1

IsWhitespace(c) == c \in {" ", "\n", "\t", "\r"}

RECURSIVE TrimStart(_)
TrimStart(s) ==
    IF s # <<>> /\ IsWhitespace(Head(s)) THEN TrimStart(Tail(s)) ELSE s

RECURSIVE TrimEnd(_)
TrimEnd(s) ==
    IF s # <<>> /\ IsWhitespace(s[Len(s)])
    THEN TrimEnd(SubSeq(s, 1, Len(s) - 1))
    ELSE s

Trim(s) == TrimEnd(TrimStart(s))

LowerChar(c) ==
    CASE c = "Y" -> "y"
      [] c = "E" -> "e"
      [] c = "S" -> "s"
      [] c = "N" -> "n"
      [] c = "O" -> "o"
      [] OTHER -> c

ToLowercase(s) == [i \in 1..Len(s) |-> LowerChar(s[i])]

RECURSIVE to_string(_)
to_string(n) ==
    IF n < 10 THEN <<DigitChars[n + 1]>>
    ELSE Append(to_string(n \div 10), DigitChars[(n % 10) + 1])

\* u32::MAX = 4294967295 = U32MaxDiv10 * 10 + U32MaxMod10
U32MaxDiv10 == 429496729
U32MaxMod10 == 5

ParseOk(n) == [ok |-> TRUE, num |-> n]
ParseErr == [ok |-> FALSE, num |-> 0]

\* Accumulates the digits of s onto acc with checked_mul / checked_add.
RECURSIVE ParseDigits(_, _)
ParseDigits(s, acc) ==
    IF s = <<>> THEN ParseOk(acc)
    ELSE IF ~IsDigit(Head(s)) THEN ParseErr
    ELSE IF acc > U32MaxDiv10
            \/ (acc = U32MaxDiv10 /\ DigitVal(Head(s)) > U32MaxMod10)
         THEN ParseErr
    ELSE ParseDigits(Tail(s), acc * 10 + DigitVal(Head(s)))

\* str::parse::<u32>: empty, a lone sign, "-", a non-digit and overflow are errors;
\* one leading "+" is accepted.
ParseU32(s) ==
    IF s = <<>> THEN ParseErr
    ELSE IF Len(s) = 1 /\ Head(s) \in {"+", "-"} THEN ParseErr
    ELSE IF Head(s) = "+" THEN ParseDigits(Tail(s), 0)
    ELSE ParseDigits(s, 0)

(***************************************************************************)
(* Messages.                                                               *)
(***************************************************************************)
MsgWelcome == "Welcome to Tic-Tac-Toe!"
MsgWon == "You won!"
MsgLost == "You lost!"
MsgReadError == "Error reading input, try again!"
MsgParseError == "Please input a valid unsigned integer!"
MsgInvalidMove == "Please input a number, between 1 and 9, not already chosen!"
MsgBotPlayed == "Bot played moved at: "

(***************************************************************************)
(* The board and the pure helpers of Game.                                 *)
(***************************************************************************)
\* Mutant: the cells start blank instead of holding their labels.
NewBoard_blank == [row \in 0..2 |-> [col \in 0..2 |-> " "]]

NewBoard ==
    [row \in 0..2 |-> [col \in 0..2 |-> DigitChars[3 * row + col + 2]]]

\* u32 arithmetic: game_move - 1 wraps to 2^32 - 1 for game_move = 0 (release
\* build); TLC's integers are 32 bits wide, so the wrapped row and column are
\* written out: (2^32 - 1) / 3 = 1431655765, (2^32 - 1) % 3 = 0.
\* Mutant: the position is not shifted to start from 0.
move_to_board_location_unshifted(game_move) ==
    <<game_move \div 3, game_move % 3>>

move_to_board_location(game_move) ==
    IF game_move = 0 THEN <<1431655765, 0>>
    ELSE <<(game_move - 1) \div 3, (game_move - 1) % 3>>

\* Mutant: a taken cell is not looked at.
is_valid_move_ignores_taken(b, unchecked_move) == unchecked_move \in 1..9

\* Mutant: the range stops at 8.
is_valid_move_to_eight(b, unchecked_move) ==
    IF unchecked_move \in 1..8
    THEN LET temp_location == move_to_board_location(unchecked_move)
         IN  b[temp_location[1]][temp_location[2]] \notin {"X", "O"}
    ELSE FALSE

is_valid_move(b, unchecked_move) ==
    IF unchecked_move \in 1..9
    THEN LET temp_location == move_to_board_location(unchecked_move)
         IN  b[temp_location[1]][temp_location[2]] \notin {"X", "O"}
    ELSE FALSE

\* Mutant: the turn is not passed on.
get_next_turn_stuck(turn) == turn

get_next_turn(turn) == IF turn = "Player" THEN "Bot" ELSE "Player"

\* Mutant: the columns are left out of the result.
game_is_won_without_cols(b) ==
    LET all_same_row == \E index \in 0..2 :
            b[index][0] = b[index][1] /\ b[index][1] = b[index][2]
        all_same_diag_1 == b[0][0] = b[1][1] /\ b[1][1] = b[2][2]
        all_same_diag_2 == b[0][2] = b[1][1] /\ b[1][1] = b[2][0]
    IN  all_same_row \/ all_same_diag_1 \/ all_same_diag_2

\* Mutant: the second diagonal is left out.
game_is_won_without_diag_2(b) ==
    LET all_same_row == \E index \in 0..2 :
            b[index][0] = b[index][1] /\ b[index][1] = b[index][2]
        all_same_col == \E index \in 0..2 :
            b[0][index] = b[1][index] /\ b[1][index] = b[2][index]
        all_same_diag_1 == b[0][0] = b[1][1] /\ b[1][1] = b[2][2]
    IN  all_same_row \/ all_same_col \/ all_same_diag_1

game_is_won(b) ==
    LET all_same_row == \E index \in 0..2 :
            b[index][0] = b[index][1] /\ b[index][1] = b[index][2]
        all_same_col == \E index \in 0..2 :
            b[0][index] = b[1][index] /\ b[1][index] = b[2][index]
        all_same_diag_1 == b[0][0] = b[1][1] /\ b[1][1] = b[2][2]
        all_same_diag_2 == b[0][2] = b[1][1] /\ b[1][1] = b[2][0]
    IN  all_same_row \/ all_same_col \/ all_same_diag_1 \/ all_same_diag_2

ValidateOk(n) == [ok |-> TRUE, num |-> n, err |-> ""]
ValidateErr(msg) == [ok |-> FALSE, num |-> 0, err |-> msg]

\* Mutant: the parsed number is returned without asking is_valid_move.
validate_player_input_unchecked(b, player_input) ==
    LET parsed == ParseU32(Trim(player_input))
    IN  IF ~parsed.ok THEN ValidateErr(MsgParseError)
        ELSE ValidateOk(parsed.num)

validate_player_input(b, player_input) ==
    LET parsed == ParseU32(Trim(player_input))
    IN  IF ~parsed.ok THEN ValidateErr(MsgParseError)
        ELSE IF is_valid_move(b, parsed.num) THEN ValidateOk(parsed.num)
        ELSE ValidateErr(MsgInvalidMove)

(***************************************************************************)
(* Inputs: what stdin and the random generator can deliver.                *)
(***************************************************************************)
Numbers == 0..MaxNum

\* The numbers also written with padding, a sign or a leading zero.
DecoratedNumbers == {n \in Numbers : n % 4 = 1}

\* The texts a line of stdin can hold when a move is asked for.
MoveTexts ==
    {to_string(n) \o <<"\n">> : n \in Numbers}
    \cup UNION {{to_string(n),
                 <<" ">> \o to_string(n) \o <<" ", "\r", "\n">>,
                 <<"+">> \o to_string(n) \o <<"\n">>,
                 <<"0">> \o to_string(n) \o <<"\n">>} : n \in DecoratedNumbers}
    \cup {<<>>, <<"\n">>, <<"a", "\n">>, <<"-", "1", "\n">>, <<"1", " ", "2", "\n">>,
          <<"5", "a", "\n">>, <<"+", "\n">>, <<"+", "+", "1", "\n">>,
          <<"2", "1", "4", "7", "4", "8", "3", "6", "4", "7">>,
          <<"4", "2", "9", "4", "9", "6", "7", "2", "9", "6">>,
          <<"9", "9", "9", "9", "9", "9", "9", "9", "9", "9", "9">>}

\* The texts a line of stdin can hold when the rematch question is asked.
AnswerTexts ==
    {<<"y">>, <<"Y">>, <<"y", "e", "s">>, <<"Y", "E", "S">>, <<"Y", "e", "s">>,
     <<"y", "\n">>, <<"y", "e", "s", "\n">>, <<" ", "y", "e", "s", " ", "\n">>,
     <<"\t", "Y", "\r", "\n">>,
     <<"n">>, <<"N">>, <<"n", "o">>, <<"n", "\n">>, <<>>, <<"\n">>,
     <<"m", "a", "y", "b", "e">>, <<"y", "y">>, <<"y", "e">>,
     <<"y", " ", "e", "s">>, <<"y", "e", "s", "!">>, <<"1">>}

\* io::stdin().read_line: Ok with the line read, or Err.
ReadOk(text) == [ok |-> TRUE, line |-> text]
ReadErr == [ok |-> FALSE, line |-> <<>>]

MoveReads == {ReadOk(t) : t \in MoveTexts} \cup {ReadErr}
AnswerReads == {ReadOk(t) : t \in AnswerTexts} \cup {ReadErr}

RandomU32 == 0..MaxRand

(***************************************************************************)
(* Game::new and main.                                                     *)
(***************************************************************************)
NoRet == [fn |-> "none", arg |-> 0, val |-> FALSE]

Init ==
    /\ board = NewBoard
    /\ current_turn = "Player"
    /\ finished = FALSE
    /\ pc = "play_turn"
    /\ output = MsgWelcome
    /\ valid_token = ""
    /\ first_match = TRUE
    /\ ret = NoRet

(***************************************************************************)
(* play_turn: self.board[row][col] = valid_token; an index outside the     *)
(* board panics.                                                           *)
(***************************************************************************)
Place(token, valid_move) ==
    LET loc == move_to_board_location(valid_move)
        row == loc[1]
        col == loc[2]
    IN  IF row \in 0..2 /\ col \in 0..2
        THEN /\ board' = [board EXCEPT ![row][col] = token]
             /\ valid_token' = token
             /\ pc' = "game_is_won"
        ELSE /\ pc' = "panicked"
             /\ UNCHANGED <<board, valid_token>>

\* One pass of get_player_move's loop on what read_line delivered: whether the
\* function returns, the number it returns, the message it prints.
get_player_move_pass(b, read) ==
    IF ~read.ok
    THEN [returns |-> FALSE, num |-> 0, msg |-> MsgReadError]
    ELSE LET res == validate_player_input(b, read.line)
         IN  IF res.ok
             THEN [returns |-> TRUE, num |-> res.num, msg |-> ""]
             ELSE [returns |-> FALSE, num |-> 0, msg |-> res.err]

\* play_turn on the Player's turn: one pass of get_player_move's loop.
GetPlayerMoveOn(read) ==
    /\ pc = "play_turn"
    /\ current_turn = "Player"
    /\ LET pass == get_player_move_pass(board, read)
       IN  /\ output' = pass.msg
           /\ IF pass.returns
              THEN Place("X", pass.num)
              ELSE UNCHANGED <<board, valid_token, pc>>
    /\ UNCHANGED <<current_turn, finished, first_match, ret>>

GetPlayerMove == \E read \in MoveReads : GetPlayerMoveOn(read)

\* Mutant: the draw is reduced modulo 8.
BotDraw_mod_8(r) == (r % 8) + 1

\* rand::random::<u32>() % 9 + 1
BotDraw(r) == (r % 9) + 1

\* Mutant: the Bot's arm of play_turn takes the Player's token.
GetBotMoveOn_places_X(r) ==
    /\ pc = "play_turn"
    /\ current_turn = "Bot"
    /\ LET bot_move == BotDraw(r)
       IN  IF is_valid_move(board, bot_move)
           THEN /\ output' = MsgBotPlayed
                /\ Place("X", bot_move)
           ELSE /\ output' = ""
                /\ UNCHANGED <<board, valid_token, pc>>
    /\ UNCHANGED <<current_turn, finished, first_match, ret>>

\* play_turn on the Bot's turn: one draw of get_bot_move's loop.
GetBotMoveOn(r) ==
    /\ pc = "play_turn"
    /\ current_turn = "Bot"
    /\ LET bot_move == BotDraw(r)
       IN  IF is_valid_move(board, bot_move)
           THEN /\ output' = MsgBotPlayed
                /\ Place("O", bot_move)
           ELSE /\ output' = ""
                /\ UNCHANGED <<board, valid_token, pc>>
    /\ UNCHANGED <<current_turn, finished, first_match, ret>>

GetBotMove == \E r \in RandomU32 : GetBotMoveOn(r)

\* Mutant: the two messages are exchanged.
WinMessage_exchanged(turn) == IF turn = "Player" THEN MsgLost ELSE MsgWon

\* play_game, lines 63-66: the message by the side whose turn it is.
WinMessage(turn) == IF turn = "Player" THEN MsgWon ELSE MsgLost

\* play_game, lines 60-68: the match is decided; the message, then reset().
GameWon ==
    /\ pc = "game_is_won"
    /\ game_is_won(board)
    /\ output' = WinMessage(current_turn)
    /\ current_turn' = "Player"
    /\ board' = NewBoard
    /\ first_match' = FALSE
    /\ pc' = "player_is_finished"
    /\ UNCHANGED <<finished, valid_token, ret>>

\* play_game, lines 60 and 73: no line is complete; the turn passes.
GameNotWon ==
    /\ pc = "game_is_won"
    /\ ~game_is_won(board)
    /\ current_turn' = get_next_turn(current_turn)
    /\ pc' = "play_turn"
    /\ output' = ""
    /\ UNCHANGED <<board, finished, valid_token, first_match, ret>>

\* Mutant: the answer is compared without trimming.
player_is_finished_untrimmed(read) ==
    IF read.ok
    THEN LET temp_input == ToLowercase(read.line)
         IN  temp_input = <<"y">> \/ temp_input = <<"y", "e", "s">>
    ELSE FALSE

\* Mutant: a failed read counts as finished.
player_is_finished_on_error(read) ==
    IF read.ok
    THEN LET temp_input == ToLowercase(read.line)
         IN  Trim(temp_input) = <<"y">> \/ Trim(temp_input) = <<"y", "e", "s">>
    ELSE TRUE

\* player_is_finished: the answer read, lowercased, trimmed and compared.
player_is_finished(read) ==
    IF read.ok
    THEN LET temp_input == ToLowercase(read.line)
         IN  Trim(temp_input) = <<"y">> \/ Trim(temp_input) = <<"y", "e", "s">>
    ELSE FALSE

\* play_game, lines 70-74 and 57: the answer, the turn flip, the loop test.
PlayerIsFinishedOn(read) ==
    /\ pc = "player_is_finished"
    /\ finished' = player_is_finished(read)
    /\ current_turn' = get_next_turn(current_turn)
    /\ pc' = IF finished' THEN "done" ELSE "play_turn"
    /\ output' = ""
    /\ UNCHANGED <<board, valid_token, first_match, ret>>

PlayerIsFinished == \E read \in AnswerReads : PlayerIsFinishedOn(read)

Next ==
    \/ GetPlayerMove
    \/ GetBotMove
    \/ GameWon
    \/ GameNotWon
    \/ PlayerIsFinished

Spec == Init /\ [][Next]_vars

(***************************************************************************)
(* The pure helpers applied to every board, as the unit tests apply them   *)
(* to boards they assemble cell by cell: each cell holds X, O or its own   *)
(* position label.                                                         *)
(***************************************************************************)
AllBoards ==
    {[row \in 0..2 |-> [col \in 0..2 |->
         IF f[3 * row + col + 1] = "E" THEN NewBoard[row][col]
         ELSE f[3 * row + col + 1]]] : f \in [1..9 -> {"E", "X", "O"}]}

\* The unchecked moves tried: the small numbers and two large ones.
MoveValues == Numbers \cup {100, 2147483647}

\* The lines that spell the number n: with or without the newline, padded
\* with whitespace, with a leading zero.
NumericTexts(n) ==
    {to_string(n),
     to_string(n) \o <<"\n">>,
     <<" ">> \o to_string(n) \o <<" ", "\r", "\n">>,
     <<"0">> \o to_string(n) \o <<"\n">>}

InitPure ==
    /\ board \in AllBoards
    /\ current_turn = "Player"
    /\ finished = FALSE
    /\ pc = "call"
    /\ output = ""
    /\ valid_token = ""
    /\ first_match = TRUE
    /\ ret = NoRet

Return(fn, arg, val) ==
    /\ ret' = [fn |-> fn, arg |-> arg, val |-> val]
    /\ pc' = "returned"
    /\ UNCHANGED <<board, current_turn, finished, output, valid_token, first_match>>

CallGameIsWon ==
    /\ pc = "call"
    /\ Return("game_is_won", 0, game_is_won(board))

CallIsValidMove ==
    /\ pc = "call"
    /\ \E n \in MoveValues : Return("is_valid_move", n, is_valid_move(board, n))

CallValidatePlayerInput ==
    /\ pc = "call"
    /\ \E n \in MoveValues : \E text \in NumericTexts(n) :
         Return("validate_player_input", n, validate_player_input(board, text))

\* game_is_won on every board.
SpecWon == InitPure /\ [][CallGameIsWon]_vars

NextValid ==
    \/ CallIsValidMove
    \/ CallValidatePlayerInput

\* is_valid_move and validate_player_input on every board.
SpecValid == InitPure /\ [][NextValid]_vars

CallMoveToBoardLocation ==
    /\ pc = "call"
    /\ \E n \in 1..9 :
         Return("move_to_board_location", n, move_to_board_location(n))

\* move_to_board_location on the positions 1..9, as test_move_to_board_location
\* calls it.
SpecLocation == InitPure /\ [][CallMoveToBoardLocation]_vars

(***************************************************************************)
(* Vocabulary of the properties, stated apart from the code's helpers.     *)
(***************************************************************************)
Marks == {"X", "O"}

\* The cell a position 1..9 addresses, written out.
PositionCell ==
    <<<<0, 0>>, <<0, 1>>, <<0, 2>>,
      <<1, 0>>, <<1, 1>>, <<1, 2>>,
      <<2, 0>>, <<2, 1>>, <<2, 2>>>>

Positions == 1..9

CellAt(b, p) == b[PositionCell[p][1]][PositionCell[p][2]]

Taken(b, p) == CellAt(b, p) \in Marks

Legal(b, n) == n \in Positions /\ ~Taken(b, n)

BoardIsEmpty(b) == \A p \in Positions : ~Taken(b, p)

CountOf(b, mark) == Cardinality({p \in Positions : CellAt(b, p) = mark})

\* The 8 lines, as sets of positions.
Lines ==
    {{1, 2, 3}, {4, 5, 6}, {7, 8, 9},
     {1, 4, 7}, {2, 5, 8}, {3, 6, 9},
     {1, 5, 9}, {3, 5, 7}}

HasLine(b, mark) == \E line \in Lines : \A p \in line : CellAt(b, p) = mark

MarkOfSide(side) == IF side = "Player" THEN "X" ELSE "O"

\* A step that places a mark: some cell that was empty is taken afterwards.
MarkPlaced == \E p \in Positions : ~Taken(board, p) /\ Taken(board', p)

(***************************************************************************)
(* C1: within a match the movers alternate: a mark placed on a board that  *)
(* already holds marks is placed by the side that did not place the last   *)
(* one; the first mark of the session is placed by Player; a step of       *)
(* play_turn that places no mark (a rejected input, a redraw) leaves the   *)
(* turn where it is.                                                       *)
(***************************************************************************)
C1_TurnsAlternate ==
    [][/\ MarkPlaced =>
            /\ valid_token' = MarkOfSide(current_turn)
            /\ (~BoardIsEmpty(board) => valid_token' # valid_token)
            /\ (first_match /\ BoardIsEmpty(board) => current_turn = "Player")
       /\ (pc = "play_turn" /\ pc' = "play_turn") =>
            /\ current_turn' = current_turn
            /\ board' = board]_vars

\* Nine marks were placed in the first match, five X and four O, with no line.
C1_Witness ==
    /\ first_match
    /\ pc = "play_turn"
    /\ CountOf(board, "X") = 5
    /\ CountOf(board, "O") = 4

(***************************************************************************)
(* C2: every match starts from an empty board with the Player to move.     *)
(* The statement of the claim; the code breaks it after a rematch.         *)
(***************************************************************************)
C2_EveryMatchStartsWithPlayer ==
    (pc = "play_turn" /\ BoardIsEmpty(board)) => current_turn = "Player"

(***************************************************************************)
(* The answers to "Are you finished playing (y/n)?" that read y or yes,    *)
(* written out, and the others.                                            *)
(***************************************************************************)
YesAnswers ==
    {<<"y">>, <<"Y">>, <<"y", "e", "s">>, <<"Y", "E", "S">>, <<"Y", "e", "s">>,
     <<"y", "\n">>, <<"y", "e", "s", "\n">>, <<" ", "y", "e", "s", " ", "\n">>,
     <<"\t", "Y", "\r", "\n">>}

YesReads == {ReadOk(t) : t \in YesAnswers \cap AnswerTexts}

OtherReads == AnswerReads \ YesReads

C5_TakenCellsKept ==
    [][~GameWon => \A p \in Positions :
          Taken(board, p) => CellAt(board', p) = CellAt(board, p)]_vars

\* Marks of both sides stand while a further mark is placed.
C5_Witness ==
    /\ pc = "game_is_won"
    /\ CountOf(board, "X") >= 2
    /\ CountOf(board, "O") >= 2

(***************************************************************************)
(* C6: on every board of X, O and position labels, game_is_won is true     *)
(* exactly when one of the 8 lines holds three X or three O.               *)
(***************************************************************************)
C6_WonIffLine ==
    ret.fn = "game_is_won" =>
        (ret.val <=> (HasLine(board, "X") \/ HasLine(board, "O")))

\* game_is_won has answered true on a board whose only line is the second
\* diagonal, taken by O.
C6_Witness ==
    /\ ret.fn = "game_is_won"
    /\ ret.val
    /\ \A p \in {3, 5, 7} : CellAt(board, p) = "O"
    /\ \A p \in Positions \ {3, 5, 7} : ~Taken(board, p)

(***************************************************************************)
(* C7: when a match is decided the message is "You won!" exactly when the  *)
(* complete line is of X and "You lost!" exactly when it is of O, and      *)
(* neither message is printed by any other step.                           *)
(***************************************************************************)
C7_MessageByWinningMark ==
    [][/\ GameWon =>
            /\ (output' = MsgWon <=> HasLine(board, "X"))
            /\ (output' = MsgLost <=> HasLine(board, "O"))
       /\ output' \in {MsgWon, MsgLost} => GameWon]_vars

\* "You lost!" was printed: the Bot placed the completing mark.
C7_Witness ==
    /\ output = MsgLost
    /\ pc = "player_is_finished"
    /\ valid_token = "O"

(***************************************************************************)
(* C8: is_valid_move(n) is true exactly when n is in 1..9 and the cell n   *)
(* addresses holds neither X nor O, and validate_player_input accepts a    *)
(* line spelling n exactly then, returning n.                              *)
(***************************************************************************)
C8_ValidIffLegal ==
    /\ ret.fn = "is_valid_move" => (ret.val <=> Legal(board, ret.arg))
    /\ ret.fn = "validate_player_input" =>
          /\ ret.val.ok <=> Legal(board, ret.arg)
          /\ ret.val.ok => ret.val.num = ret.arg

\* A line spelling 9 was accepted on a board with taken cells.
C8_Witness ==
    /\ ret.fn = "validate_player_input"
    /\ ret.arg = 9
    /\ ret.val.ok
    /\ Taken(board, 1)
    /\ Taken(board, 8)

(***************************************************************************)
(* C9: when the Bot is to move, get_bot_move can return the position p     *)
(* (and play_turn place O there) exactly for the positions p that are      *)
(* legal on the board, and it returns nothing else.                        *)
(***************************************************************************)
BotReturns(p) ==
    /\ GetBotMove
    /\ pc' # "play_turn"
    /\ \A q \in Positions :
          CellAt(board', q) = IF q = p THEN "O" ELSE CellAt(board, q)

C9_BotPlaysExactlyLegal ==
    (pc = "play_turn" /\ current_turn = "Bot") =>
        /\ \A p \in Positions : (ENABLED BotReturns(p)) <=> Legal(board, p)
        /\ ~ENABLED (/\ GetBotMove
                     /\ pc' # "play_turn"
                     /\ \A p \in Positions : ~BotReturns(p))

\* The Bot has just played position 9.
C9_Witness ==
    /\ output = MsgBotPlayed
    /\ pc = "game_is_won"
    /\ CellAt(board, 9) = "O"
    /\ CountOf(board, "O") >= 3

(***************************************************************************)
(* C10: a rejected Player input (a failed read, a text that is no          *)
(* unsigned integer, a number outside 1..9, a number of a taken cell)      *)
(* makes the pass of get_player_move print an error and not return, and a  *)
(* pass that prints an error leaves board, turn and finished as they       *)
(* were, with the Player asked again, however often that has happened.     *)
(***************************************************************************)
UnparsableTexts ==
    {<<>>, <<"\n">>, <<"a", "\n">>, <<"-", "1", "\n">>, <<"1", " ", "2", "\n">>,
     <<"5", "a", "\n">>, <<"+", "\n">>, <<"+", "+", "1", "\n">>}

LargeNumberTexts ==
    {<<"2", "1", "4", "7", "4", "8", "3", "6", "4", "7">>,
     <<"4", "2", "9", "4", "9", "6", "7", "2", "9", "6">>,
     <<"9", "9", "9", "9", "9", "9", "9", "9", "9", "9", "9">>}

RejectedReads(b) ==
    {ReadErr}
    \cup {ReadOk(t) : t \in UnparsableTexts \cup LargeNumberTexts}
    \cup {ReadOk(t) : t \in UNION {NumericTexts(n) : n \in {m \in MoveValues : ~Legal(b, m)}}}

ErrorMessages == {MsgReadError, MsgParseError, MsgInvalidMove}

C10_RejectedInputNoEffect ==
    /\ []((pc = "play_turn" /\ current_turn = "Player") =>
            \A read \in RejectedReads(board) :
                LET pass == get_player_move_pass(board, read)
                IN  ~pass.returns /\ pass.msg \in ErrorMessages)
    /\ [][(pc = "play_turn" /\ current_turn = "Player" /\ output' \in ErrorMessages) =>
            /\ board' = board
            /\ current_turn' = current_turn
            /\ finished' = finished
            /\ pc' = "play_turn"]_vars

\* The Player was refused a taken cell and is asked again.
C10_Witness ==
    /\ pc = "play_turn"
    /\ current_turn = "Player"
    /\ output = MsgInvalidMove
    /\ CountOf(board, "O") >= 1
    /\ ~finished

(***************************************************************************)
(* C11: the mark a step places is X when it is the Player's turn and O     *)
(* when it is the Bot's, in the first match and in every later one, and a  *)
(* step places at most one mark.                                           *)
(***************************************************************************)
C11_MarkBySide ==
    [][/\ \A p \in Positions :
            (~Taken(board, p) /\ Taken(board', p)) =>
                CellAt(board', p) = (IF current_turn = "Player" THEN "X" ELSE "O")
       /\ Cardinality({p \in Positions : ~Taken(board, p) /\ Taken(board', p)}) <= 1]_vars

\* In a match after the first, both sides have placed marks.
C11_Witness ==
    /\ ~first_match
    /\ pc = "play_turn"
    /\ CountOf(board, "X") >= 2
    /\ CountOf(board, "O") >= 2

(***************************************************************************)
(* C12: move_to_board_location maps 1..9 onto the nine cells row by row,   *)
(* 1 -> (0,0), 2 -> (0,1), ..., 9 -> (2,2), and no other position of 1..9  *)
(* is mapped to the cell returned.                                         *)
(***************************************************************************)
C12_LocationTable ==
    ret.fn = "move_to_board_location" =>
        /\ ret.val = PositionCell[ret.arg]
        /\ ret.val[1] \in 0..2 /\ ret.val[2] \in 0..2
        /\ \A m \in Positions \ {ret.arg} : move_to_board_location(m) # ret.val

\* move_to_board_location(6) has returned (1, 2).
C12_Witness ==
    /\ ret.fn = "move_to_board_location"
    /\ ret.arg = 6
    /\ ret.val = <<1, 2>>

(***************************************************************************)
(* C13: the state Game::new leaves (nothing but the welcome printed yet):  *)
(* no cell is taken, it is the Player's turn, game_is_won is false and no  *)
(* line is complete, and the board is not full.                            *)
(***************************************************************************)
BoardIsFull(b) == \A p \in Positions : Taken(b, p)

C13_FreshGame ==
    output = MsgWelcome =>
        /\ BoardIsEmpty(board)
        /\ \A p \in Positions : CellAt(board, p) = DigitChars[p + 1]
        /\ current_turn = "Player"
        /\ ~game_is_won(board)
        /\ ~HasLine(board, "X") /\ ~HasLine(board, "O")
        /\ ~BoardIsFull(board)
        /\ ~finished

\* The freshly constructed game, about to ask for its first move.
C13_Witness ==
    /\ output = MsgWelcome
    /\ pc = "play_turn"
    /\ first_match

(***************************************************************************)
(* Fairness of the move sources and of the program's own steps: the        *)
(* Player in time enters a legal position when there is one, the Bot's     *)
(* draws in time hit a legal position when there is one, and the thread    *)
(* goes on from the win check.                                             *)
(***************************************************************************)
PlayerPlaces ==
    /\ pc = "play_turn"
    /\ current_turn = "Player"
    /\ \E n \in 1..9 :
         /\ is_valid_move(board, n)
         /\ output' = ""
         /\ Place("X", n)
    /\ UNCHANGED <<current_turn, finished, first_match, ret>>

BotPlaces == GetBotMove /\ pc' # pc

FairSpec ==
    /\ Spec
    /\ WF_vars(PlayerPlaces)
    /\ WF_vars(BotPlaces)
    /\ WF_vars(GameWon)
    /\ WF_vars(GameNotWon)

(***************************************************************************)
(* C14 as claimed: with fair move sources, whenever a side is awaited for  *)
(* a move the session in time reaches the rematch question of a decided    *)
(* match.                                                                  *)
(***************************************************************************)
C14_EveryMatchIsDecided ==
    (pc = "play_turn") ~> (pc = "player_is_finished")

(***************************************************************************)
(* C15: once the board is full with no complete line, no step prints a     *)
(* result or reaches the rematch question: the win check passes the turn   *)
(* on, play_turn is entered on the full board, and from then on every      *)
(* pass of get_player_move and every draw of get_bot_move fails, leaving   *)
(* board and turn as they are.                                             *)
(***************************************************************************)
Drawn(b) == BoardIsFull(b) /\ ~HasLine(b, "X") /\ ~HasLine(b, "O")

C15_FullBoardNeverLeft ==
    [][Drawn(board) =>
          /\ board' = board
          /\ pc' = "play_turn"
          /\ ~finished'
          /\ output' \notin {MsgWon, MsgLost, MsgBotPlayed}
          /\ (pc = "play_turn" => current_turn' = current_turn)
          /\ (pc = "game_is_won" => current_turn' # current_turn)]_vars

\* The Player is asked again on a full board without a line.
C15_Witness ==
    /\ Drawn(board)
    /\ pc = "play_turn"
    /\ current_turn = "Player"
    /\ output = MsgInvalidMove

(***************************************************************************)
(* C16: no reachable board holds a complete line of X and a complete line  *)
(* of O.                                                                   *)
(***************************************************************************)
C16_AtMostOneWinner == ~(HasLine(board, "X") /\ HasLine(board, "O"))

\* X has a complete line on a board where O holds two cells of a line.
C16_Witness ==
    /\ HasLine(board, "X")
    /\ \E line \in Lines :
          Cardinality({p \in line : CellAt(board, p) = "O"}) = 2

(***************************************************************************)
(* C17: play_turn is never entered on a board with a complete line, and    *)
(* the step that follows a mark completing a line is the decision with     *)
(* its reset, so that no mark is placed on a board with a complete line.   *)
(***************************************************************************)
C17_PlayStopsAtLine ==
    /\ [](pc = "play_turn" => (~HasLine(board, "X") /\ ~HasLine(board, "O")))
    /\ [][/\ (HasLine(board, "X") \/ HasLine(board, "O")) =>
               (pc = "game_is_won" /\ pc' = "player_is_finished" /\ board' = NewBoard)
          /\ MarkPlaced => pc' = "game_is_won"]_vars

\* The Bot has completed a line and the win check is next.
C17_Witness ==
    /\ pc = "game_is_won"
    /\ HasLine(board, "O")
    /\ valid_token = "O"

(***************************************************************************)
(* C18: play_game returns only from the rematch question that follows a    *)
(* decided match, on an answer that says finished; it never ends by a      *)
(* panic; and after it has returned nothing changes any more.              *)
(***************************************************************************)
C18_OnlyExitIsPrompt ==
    /\ [](/\ pc # "panicked"
          /\ finished <=> pc = "done"
          /\ pc = "done" => (BoardIsEmpty(board) /\ ~first_match))
    /\ [][/\ pc' = "done" => (pc = "player_is_finished" /\ finished')
          /\ pc # "done"]_vars

\* play_game has returned after a match the Bot won.
C18_Witness ==
    /\ pc = "done"
    /\ valid_token = "O"
    /\ current_turn = "Bot"

(***************************************************************************)
(* C19: the numbers of X and of O on the board differ by at most one, and  *)
(* the side about to move has placed no more marks than the other side.    *)
(***************************************************************************)
C19_CountsBalanced ==
    /\ CountOf(board, "X") - CountOf(board, "O") \in {-1, 0, 1}
    /\ pc = "play_turn" =>
          CountOf(board, MarkOfSide(current_turn))
             <= CountOf(board, MarkOfSide(IF current_turn = "Player" THEN "Bot" ELSE "Player"))

\* The Bot opened the match and is one mark ahead; the Player is to move.
C19_Witness ==
    /\ pc = "play_turn"
    /\ current_turn = "Player"
    /\ CountOf(board, "O") = CountOf(board, "X") + 1
    /\ CountOf(board, "O") >= 3

(***************************************************************************)
(* C20: during play move_to_board_location is reached only with 1..9.      *)
(* Whatever the Player's line holds (0 included) and whatever the Bot      *)
(* draws, the move that get_player_move or get_bot_move hands to play_turn *)
(* is in 1..9, so game_move - 1 does not wrap, row and column are in 0..2, *)
(* and play_turn never indexes outside the board.                          *)
(***************************************************************************)
InBoard(loc) == loc[1] \in 0..2 /\ loc[2] \in 0..2

\* The moves get_player_move can return on board b.
PlayerMovesReturned(b) ==
    {get_player_move_pass(b, read).num :
        read \in {rd \in MoveReads : get_player_move_pass(b, rd).returns}}

\* The moves get_bot_move can return on board b.
BotMovesReturned(b) ==
    {BotDraw(r) : r \in {d \in RandomU32 : is_valid_move(b, BotDraw(d))}}

ZeroRead == ReadOk(<<"0", "\n">>)

C20_LocationArgumentInRange ==
    /\ pc # "panicked"
    /\ pc = "play_turn" =>
          /\ \A game_move \in PlayerMovesReturned(board) \cup BotMovesReturned(board) :
                /\ game_move \in 1..9
                /\ game_move - 1 >= 0
                /\ InBoard(move_to_board_location(game_move))
          /\ ZeroRead \in MoveReads
          /\ get_player_move_pass(board, ZeroRead) =
                [returns |-> FALSE, num |-> 0, msg |-> MsgInvalidMove]

\* On an empty board the Player was refused a number outside 1..9.
C20_Witness ==
    /\ pc = "play_turn"
    /\ current_turn = "Player"
    /\ BoardIsEmpty(board)
    /\ output = MsgInvalidMove

=============================================================================
